---- MODULE Spec2Model ----
(***************************************************************************)
(* Skywage backend: the binding of a login identity (Django auth User) to  *)
(* a Profile by email, the registration flow that creates both, the token  *)
(* enrichment, and the per-profile scoping of flights, monthly             *)
(* calculations and user settings.                                         *)
(*                                                                         *)
(* Every request handler is a pure function of the stores and the request  *)
(* (an operator returning the new stores and the response); an action      *)
(* applies one handler to a request drawn from a bounded set.  Spec runs   *)
(* the handlers one request at a time; SpecConc interleaves the database   *)
(* operations of concurrent registration requests.                         *)
(***************************************************************************)
EXTENDS Integers, Sequences, FiniteSets, TLC

VARIABLES
    users,      \* auth_user rows: [id, username, email]
    profiles,   \* profiles rows: [id, email, airline, position]
    rows,       \* rows[k]: the rows of resource kind k: [id, user]
    reg         \* reg[r]: registration request r in flight (SpecConc)

vars == <<users, profiles, rows, reg>>

----------------------------------------------------------------------------
(* Bounds of the model *)

MaxUuid == 1        \* uuid4 values the profiles endpoint can draw
MaxRows == 2        \* flights, calculations and settings rows stored at once
NReq == 2           \* registration requests in flight at once

(* Program constants *)

PositionMaxLength == 4      \* Profile.position max_length: varchar(4) in the table
Uuid4Hi == 16384            \* high half of a version-4 UUID: version nibble 4

----------------------------------------------------------------------------
(* Values *)

\* A username as sent: name = "" is an absent or empty field; compat marks
\* a spelling with compatibility characters, which NFKC folds to the plain one.
Names == {"amira", "bilal"}
Usernames == {[name |-> "", compat |-> FALSE]} \cup [name : Names, compat : BOOLEAN]

\* An email as sent, local@x.com or local@X.COM: local = "" is an absent or
\* empty field; upper marks the domain part written in upper case.
Locals == {"a", "b"}
Emails == {[local |-> "", upper |-> FALSE]} \cup [local : Locals, upper : BOOLEAN]

\* "" is an absent or empty field.  "SENIOR" stands for a position that is
\* no choice and is longer than the column.
Airlines == {"", "EK"}
POSITION_CHOICES == {"CCM", "SCCM"}
Positions == {""} \cup POSITION_CHOICES \cup {"SENIOR"}

\* UUIDs as the two 64-bit halves of their 128-bit integer.  A UUIDField
\* given the integer n stores UUID(int=n); uuid4 sets the version nibble, so
\* the two never coincide.
UuidOfInt(n) == [hi |-> 0, lo |-> n]
Uuid4(k) == [hi |-> Uuid4Hi, lo |-> k]

Kinds == {"flight", "monthly_calculation", "user_settings"}

Idle == [pc |-> "idle"]

\* UserManager.normalize_email lower-cases the domain part.
normalize_email(e) == [e EXCEPT !.upper = FALSE]

\* AbstractBaseUser.normalize_username is NFKC normalisation.
normalize_username(u) == [u EXCEPT !.compat = FALSE]

----------------------------------------------------------------------------
(* The stores *)

\* Mutant: the lookup made case-insensitive (email__iexact).
ProfileGet_iexact(P, email) ==
    LET m == {p \in P : normalize_email(p.email) = normalize_email(email)} IN
    IF m = {} THEN [found |-> "DoesNotExist"]
    ELSE IF Cardinality(m) = 1 THEN [found |-> "one", profile |-> CHOOSE p \in m : TRUE]
    ELSE [found |-> "MultipleObjectsReturned"]

\* Profile.objects.get(email=...): DoesNotExist, the row, or
\* MultipleObjectsReturned.
ProfileGet(P, email) ==
    LET m == {p \in P : p.email = email} IN
    IF m = {} THEN [found |-> "DoesNotExist"]
    ELSE IF Cardinality(m) = 1 THEN [found |-> "one", profile |-> CHOOSE p \in m : TRUE]
    ELSE [found |-> "MultipleObjectsReturned"]

\* User.objects.create_user: the username and the email are normalised, then
\* the row is inserted.  auth_user.username is unique, auth_user.email is
\* not; the id is the next value of the table's sequence (no request deletes
\* a row of auth_user).
create_user(U, username, email) ==
    LET name == normalize_username(username) IN
    IF \E u \in U : u.username = name
    THEN [ok |-> FALSE, users |-> U, id |-> 0]
    ELSE LET id == Cardinality(U) + 1 IN
         [ok |-> TRUE, id |-> id,
          users |-> U \cup {[id |-> id, username |-> name, email |-> normalize_email(email)]}]

\* Profile.objects.create: an INSERT under the table's constraints (primary
\* key, unique email, varchar(4) position in the PostgreSQL table the model
\* maps to); the field validators and the choices are not run.
ProfileCreate(P, id, email, airline, position) ==
    IF \/ \E p \in P : p.id = id \/ p.email = email
       \/ Len(position) > PositionMaxLength
    THEN [ok |-> FALSE, profiles |-> P]
    ELSE [ok |-> TRUE,
          profiles |-> P \cup {[id |-> id, email |-> email, airline |-> airline,
                                position |-> position]}]

----------------------------------------------------------------------------
(* Registration: authentication/views.py register_user *)

RegPayloads ==
    [username : Usernames, email : Emails, password : {"", "pw"},
     airline : Airlines, position : Positions]

\* Mutant: any() written for all().
MissingRequired_any(d) ==
    /\ d.username.name = "" /\ d.email.local = "" /\ d.password = ""
    /\ d.airline = "" /\ d.position = ""

MissingRequired(d) ==
    \/ d.username.name = "" \/ d.email.local = "" \/ d.password = ""
    \/ d.airline = "" \/ d.position = ""

UsernameExists(U, d) == \E u \in U : u.username = d.username

\* Mutant: the profiles table left out of the email check.
EmailExists_users_only(U, P, d) == \E u \in U : u.email = d.email

EmailExists(U, P, d) ==
    \/ \E u \in U : u.email = d.email
    \/ \E p \in P : p.email = d.email

ErrMissing == "Username, email, password, airline, and position are required"
ErrUsername == "Username already exists"
ErrEmail == "Email already exists"

\* The whole handler, run without interference: the stores and the response
\* it leaves.  An exception escaping the view is answered 500.
register_user(U, P, d) ==
    IF MissingRequired(d)
    THEN [users |-> U, profiles |-> P, status |-> 400, error |-> ErrMissing]
    ELSE IF UsernameExists(U, d)
    THEN [users |-> U, profiles |-> P, status |-> 400, error |-> ErrUsername]
    ELSE IF EmailExists(U, P, d)
    THEN [users |-> U, profiles |-> P, status |-> 400, error |-> ErrEmail]
    ELSE LET cu == create_user(U, d.username, d.email) IN
         IF ~cu.ok
         THEN [users |-> U, profiles |-> P, status |-> 500, error |-> "IntegrityError"]
         ELSE LET cp == ProfileCreate(P, UuidOfInt(cu.id), d.email, d.airline, d.position) IN
              IF ~cp.ok
              THEN [users |-> cu.users, profiles |-> P, status |-> 500, error |-> "DatabaseError"]
              ELSE [users |-> cu.users, profiles |-> cp.profiles, status |-> 201, error |-> ""]

RegisterUser(d) ==
    LET res == register_user(users, profiles, d) IN
    /\ users' = res.users
    /\ profiles' = res.profiles
    /\ UNCHANGED <<rows, reg>>

----------------------------------------------------------------------------
(* Registration, one database operation at a time (no transaction wraps  *)
(* the view): reg[r] holds the request's data and its place in the view. *)

\* The response leaves the server and the worker is free again.
RegRespond(r, status, error) == reg' = [reg EXCEPT ![r] = Idle]

\* Lines 25-45: read the request, validate it, query the username.
RegBegin(r, d) ==
    /\ reg[r].pc = "idle"
    /\ IF MissingRequired(d) THEN RegRespond(r, 400, ErrMissing)
       ELSE IF UsernameExists(users, d) THEN RegRespond(r, 400, ErrUsername)
       ELSE reg' = [reg EXCEPT ![r] = [pc |-> "check_email", d |-> d]]
    /\ UNCHANGED <<users, profiles, rows>>

\* Lines 47-51: the two email queries, as one step (a write that falls
\* between them is seen by the second query, and the request is rejected as
\* if both queries had followed the write).
RegCheckEmail(r) ==
    /\ reg[r].pc = "check_email"
    /\ IF EmailExists(users, profiles, reg[r].d) THEN RegRespond(r, 400, ErrEmail)
       ELSE reg' = [reg EXCEPT ![r].pc = "create_user"]
    /\ UNCHANGED <<users, profiles, rows>>

\* Lines 54-60.
RegCreateUser(r) ==
    /\ reg[r].pc = "create_user"
    /\ LET cu == create_user(users, reg[r].d.username, reg[r].d.email) IN
       IF ~cu.ok
       THEN /\ RegRespond(r, 500, "IntegrityError")
            /\ UNCHANGED users
       ELSE /\ users' = cu.users
            /\ reg' = [reg EXCEPT ![r] = [pc |-> "create_profile", d |-> reg[r].d, uid |-> cu.id]]
    /\ UNCHANGED <<profiles, rows>>

\* Lines 63-77.
RegCreateProfile(r) ==
    /\ reg[r].pc = "create_profile"
    /\ LET d == reg[r].d
           cp == ProfileCreate(profiles, UuidOfInt(reg[r].uid), d.email, d.airline, d.position) IN
       /\ profiles' = cp.profiles
       /\ IF cp.ok THEN RegRespond(r, 201, "") ELSE RegRespond(r, 500, "DatabaseError")
    /\ UNCHANGED <<users, rows>>

----------------------------------------------------------------------------
(* The profiles endpoint: core/views.py ProfileViewSet, ProfileSerializer *)

\* An authenticated caller is a row of auth_user.
ProfilePayloads == [email : Emails, airline : Airlines, position : Positions]

ProfileIds == {UuidOfInt(n) : n \in 1..Cardinality(Names)} \cup {Uuid4(k) : k \in 1..MaxUuid}

profile_get_queryset(P, user) == {p \in P : p.email = user.email}

\* ProfileSerializer.is_valid: required fields, the position choices, and the
\* unique-email validator (the instance being updated excluded).
ProfileValid(P, others, d) ==
    /\ d.email.local # ""
    /\ d.airline # ""
    /\ d.position \in POSITION_CHOICES
    /\ ~\E p \in others : p.email = d.email

\* POST /profiles/: the id is the model's default, a fresh uuid4.
profile_create(P, user, d, id) ==
    IF ~ProfileValid(P, P, d) THEN [profiles |-> P, status |-> 400]
    ELSE [profiles |-> P \cup {[id |-> id, email |-> d.email, airline |-> d.airline,
                                position |-> d.position]},
          status |-> 201]

\* PUT /profiles/<pk>/: the id is read-only.  A PATCH equals the PUT that
\* repeats the stored value of every field it leaves out.
profile_update(P, user, pk, d) ==
    LET qs == {p \in profile_get_queryset(P, user) : p.id = pk} IN
    IF qs = {} THEN [profiles |-> P, status |-> 404]
    ELSE LET inst == CHOOSE p \in qs : TRUE IN
         IF ~ProfileValid(P, P \ {inst}, d) THEN [profiles |-> P, status |-> 400]
         ELSE [profiles |-> (P \ {inst}) \cup
                   {[id |-> inst.id, email |-> d.email, airline |-> d.airline,
                     position |-> d.position]},
               status |-> 200]

\* DELETE /profiles/<pk>/: on_delete=CASCADE removes the profile's rows.
profile_destroy(P, R, user, pk) ==
    LET qs == {p \in profile_get_queryset(P, user) : p.id = pk} IN
    IF qs = {} THEN [profiles |-> P, rows |-> R, status |-> 404]
    ELSE [profiles |-> P \ qs,
          rows |-> [k \in Kinds |-> {x \in R[k] : x.user # pk}],
          status |-> 204]

ProfileCreateReq(user, d, k) ==
    /\ user \in users
    /\ ~\E p \in profiles : p.id = Uuid4(k)
    /\ LET res == profile_create(profiles, user, d, Uuid4(k)) IN
       /\ profiles' = res.profiles
    /\ UNCHANGED <<users, rows, reg>>

ProfileUpdateReq(user, pk, d) ==
    /\ user \in users
    /\ LET res == profile_update(profiles, user, pk, d) IN
       /\ profiles' = res.profiles
    /\ UNCHANGED <<users, rows, reg>>

ProfileDestroyReq(user, pk) ==
    /\ user \in users
    /\ LET res == profile_destroy(profiles, rows, user, pk) IN
       /\ profiles' = res.profiles
       /\ rows' = res.rows
    /\ UNCHANGED <<users, reg>>

----------------------------------------------------------------------------
(* Flights, monthly calculations, user settings: core/views.py viewsets, *)
(* core/serializers.py serializers                                       *)

\* Of a row only the id and the owning profile are kept: no other column
\* plays a part in what a caller may see or change.
RowIds == {Uuid4(k) : k \in 1..MaxRows}
RowPayloads == [user : ProfileIds]

\* Mutant: the profile joined by identifier instead of by email.
get_queryset_by_id(P, R, kind, user) ==
    LET m == {p \in P : p.id = UuidOfInt(user.id)} IN
    [status |-> 200, rows |-> {x \in R[kind] : \E p \in m : x.user = p.id}]

\* get_queryset of the three viewsets: only Profile.DoesNotExist is caught.
get_queryset(P, R, kind, user) ==
    LET g == ProfileGet(P, user.email) IN
    IF g.found = "one"
    THEN [status |-> 200, rows |-> {x \in R[kind] : x.user = g.profile.id}]
    ELSE IF g.found = "DoesNotExist"
    THEN [status |-> 200, rows |-> {}]
    ELSE [status |-> 500, rows |-> {}]

\* The serializer's validation: 'user' is a writable primary-key field over
\* all profiles; user_settings.user is one-to-one, hence unique.
RowValid(P, others, kind, d) ==
    /\ \E p \in P : p.id = d.user
    /\ kind = "user_settings" => ~\E x \in others : x.user = d.user

\* GET /<kind>/
list(P, R, kind, user) == get_queryset(P, R, kind, user)

\* GET /<kind>/<pk>/
retrieve(P, R, kind, user, pk) ==
    LET qs == get_queryset(P, R, kind, user)
        hit == {x \in qs.rows : x.id = pk} IN
    IF qs.status # 200 THEN [status |-> qs.status, rows |-> {}]
    ELSE IF hit = {} THEN [status |-> 404, rows |-> {}]
    ELSE [status |-> 200, rows |-> hit]

\* POST /<kind>/: the serializer's data is saved as sent; the queryset of
\* the caller plays no part.
create(P, R, kind, user, d, id) ==
    IF ~RowValid(P, R[kind], kind, d) THEN [rows |-> R, status |-> 400]
    ELSE [rows |-> [R EXCEPT ![kind] = @ \cup {[id |-> id, user |-> d.user]}],
          status |-> 201]

\* PUT /<kind>/<pk>/
update(P, R, kind, user, pk, d) ==
    LET got == retrieve(P, R, kind, user, pk) IN
    IF got.status # 200 THEN [rows |-> R, status |-> got.status]
    ELSE IF ~RowValid(P, R[kind] \ got.rows, kind, d) THEN [rows |-> R, status |-> 400]
    ELSE [rows |-> [R EXCEPT ![kind] = (@ \ got.rows) \cup
                                        {[id |-> pk, user |-> d.user]}],
          status |-> 200]

\* DELETE /<kind>/<pk>/
destroy(P, R, kind, user, pk) ==
    LET got == retrieve(P, R, kind, user, pk) IN
    IF got.status # 200 THEN [rows |-> R, status |-> got.status]
    ELSE [rows |-> [R EXCEPT ![kind] = @ \ got.rows], status |-> 204]

TotalRows == Cardinality(UNION {{<<k, x>> : x \in rows[k]} : k \in Kinds})

CreateReq(kind, user, d, id) ==
    /\ user \in users
    /\ TotalRows < MaxRows
    /\ ~\E x \in rows[kind] : x.id = id
    /\ LET res == create(profiles, rows, kind, user, d, id) IN
       /\ rows' = res.rows
    /\ UNCHANGED <<users, profiles, reg>>

UpdateReq(kind, user, pk, d) ==
    /\ user \in users
    /\ LET res == update(profiles, rows, kind, user, pk, d) IN
       /\ rows' = res.rows
    /\ UNCHANGED <<users, profiles, reg>>

DestroyReq(kind, user, pk) ==
    /\ user \in users
    /\ LET res == destroy(profiles, rows, kind, user, pk) IN
       /\ rows' = res.rows
    /\ UNCHANGED <<users, profiles, reg>>

ListReq(kind, user) ==
    /\ user \in users
    /\ UNCHANGED <<users, profiles, rows, reg>>

RetrieveReq(kind, user, pk) ==
    /\ user \in users
    /\ UNCHANGED <<users, profiles, rows, reg>>

----------------------------------------------------------------------------
(* Token issuance and the self-profile endpoint *)

HexDigits == <<"0", "1", "2", "3", "4", "5", "6", "7",
               "8", "9", "a", "b", "c", "d", "e", "f">>

RECURSIVE Hex(_, _)
Hex(n, width) ==
    IF width = 0 THEN <<>>
    ELSE Append(Hex(n \div 16, width - 1), HexDigits[(n % 16) + 1])

\* str(uuid): 8-4-4-4-12 hexadecimal digits.
UuidStr(u) ==
    LET h == Hex(u.hi, 16)
        l == Hex(u.lo, 16) IN
    SubSeq(h, 1, 8) \o <<"-">> \o SubSeq(h, 9, 12) \o <<"-">> \o SubSeq(h, 13, 16)
        \o <<"-">> \o SubSeq(l, 1, 4) \o <<"-">> \o SubSeq(l, 5, 16)

\* Mutant: the profile joined by identifier instead of by email.
get_token_by_id(P, user) ==
    LET m == {p \in P : p.id = UuidOfInt(user.id)}
        token == [user_id |-> user.id] IN
    IF m = {} THEN [status |-> 200, token |-> token]
    ELSE LET p == CHOOSE q \in m : TRUE IN
         [status |-> 200,
          token |-> token @@ [airline |-> p.airline, position |-> p.position,
                              profile_id |-> UuidStr(p.id)]]

\* CustomTokenObtainPairSerializer.get_token for an authenticated user: the
\* base token's claims, then the profile's when the lookup finds it.
get_token(P, user) ==
    LET g == ProfileGet(P, user.email)
        token == [user_id |-> user.id] IN
    IF g.found = "one"
    THEN [status |-> 200,
          token |-> token @@ [airline |-> g.profile.airline,
                              position |-> g.profile.position,
                              profile_id |-> UuidStr(g.profile.id)]]
    ELSE IF g.found = "DoesNotExist"
    THEN [status |-> 200, token |-> token]
    ELSE [status |-> 500, token |-> token]

\* authentication/views.py get_user_profile
get_user_profile(P, user) ==
    LET g == ProfileGet(P, user.email) IN
    IF g.found = "one"
    THEN [status |-> 200, user |-> user, profile |-> {g.profile}]
    ELSE IF g.found = "DoesNotExist"
    THEN [status |-> 404, user |-> user, profile |-> {}]
    ELSE [status |-> 500, user |-> user, profile |-> {}]

TokenReq(user) ==
    /\ user \in users
    /\ UNCHANGED <<users, profiles, rows, reg>>

SelfProfileReq(user) ==
    /\ user \in users
    /\ UNCHANGED <<users, profiles, rows, reg>>

----------------------------------------------------------------------------

Init ==
    /\ users = {}
    /\ profiles = {}
    /\ rows = [k \in Kinds |-> {}]
    /\ reg = [r \in 1..NReq |-> Idle]

\* Spec: registration, the profiles endpoint, token issuance and the
\* self-profile endpoint, one request at a time, over every payload.
Next ==
    \/ \E d \in RegPayloads : RegisterUser(d)
    \/ \E u \in users, d \in ProfilePayloads, k \in 1..MaxUuid : ProfileCreateReq(u, d, k)
    \/ \E u \in users, pk \in ProfileIds, d \in ProfilePayloads : ProfileUpdateReq(u, pk, d)
    \/ \E u \in users, pk \in ProfileIds : ProfileDestroyReq(u, pk)
    \/ \E u \in users : TokenReq(u)
    \/ \E u \in users : SelfProfileReq(u)

Spec == Init /\ [][Next]_vars

\* SpecData: the resource endpoints over stores built by well-formed
\* registrations and profile requests (the airline and position of a profile
\* play no part in scoping, so one value of each is sent).
DataRegPayloads ==
    {d \in RegPayloads : /\ ~MissingRequired(d) /\ ~d.username.compat
                         /\ d.position = "CCM"}

DataProfilePayloads ==
    {d \in ProfilePayloads : d.email.local # "" /\ d.airline # "" /\ d.position = "CCM"}

NextData ==
    \/ \E d \in DataRegPayloads : RegisterUser(d)
    \/ \E u \in users, pk \in ProfileIds, d \in DataProfilePayloads : ProfileUpdateReq(u, pk, d)
    \/ \E u \in users, pk \in ProfileIds : ProfileDestroyReq(u, pk)
    \/ \E k \in Kinds, u \in users, d \in RowPayloads, id \in RowIds : CreateReq(k, u, d, id)
    \/ \E k \in Kinds, u \in users, pk \in RowIds, d \in RowPayloads : UpdateReq(k, u, pk, d)
    \/ \E k \in Kinds, u \in users, pk \in RowIds : DestroyReq(k, u, pk)
    \/ \E k \in Kinds, u \in users : ListReq(k, u)
    \/ \E k \in Kinds, u \in users, pk \in RowIds : RetrieveReq(k, u, pk)
    \/ \E u \in users : SelfProfileReq(u)

SpecData == Init /\ [][NextData]_vars

\* SpecConc: concurrent registrations, one database operation at a time.
\* Clients send plainly spelled usernames and emails, so that what SpecConc
\* shows comes from the interleaving alone.
ConcPayloads == {d \in RegPayloads : ~d.username.compat /\ ~d.email.upper}

NextConc ==
    \/ \E r \in 1..NReq, d \in ConcPayloads : RegBegin(r, d)
    \/ \E r \in 1..NReq : RegCheckEmail(r)
    \/ \E r \in 1..NReq : RegCreateUser(r)
    \/ \E r \in 1..NReq : RegCreateProfile(r)

SpecConc == Init /\ [][NextConc]_vars

----------------------------------------------------------------------------
(* The claims *)

\* The identity binder's answer: the profiles whose email is the caller's.
BoundTo(u, p) == p \in profiles /\ p.email = u.email
Unbound(u) == ~\E p \in profiles : p.email = u.email

\* C1: when a caller whose email matches profile p lists flights, monthly
\* calculations or user settings, the answer is 200 and holds exactly the
\* rows of that kind whose owner is p: all of p's, none of anyone else's.
C1_ListIsExactlyOwnRows ==
    \A u \in users, p \in profiles :
        BoundTo(u, p) =>
            \A k \in Kinds :
                LET r == list(profiles, rows, k, u) IN
                /\ r.status = 200
                /\ r.rows = {x \in rows[k] : x.user = p.id}

\* A caller bound to p, with a row of p and a row of another profile in the
\* same table.
C1_Witness ==
    \E u \in users, p \in profiles, q \in profiles, k \in Kinds :
        /\ BoundTo(u, p) /\ q # p
        /\ \E x \in rows[k] : x.user = p.id
        /\ \E y \in rows[k] : y.user = q.id

\* C2: no create, update or delete by a caller bound to profile p adds,
\* changes or removes a row owned, before or after, by another profile.
C2_MutationsStayInScope ==
    [][\A k \in Kinds, u \in users, p \in profiles :
          (/\ BoundTo(u, p)
           /\ \/ \E d \in RowPayloads, id \in RowIds : CreateReq(k, u, d, id)
              \/ \E pk \in RowIds, d \in RowPayloads : UpdateReq(k, u, pk, d)
              \/ \E pk \in RowIds : DestroyReq(k, u, pk))
          => {x \in rows'[k] : x.user # p.id} = {x \in rows[k] : x.user # p.id}]_vars

\* C3: when a registration request has finished, every credential it
\* created has a profile with the same email.
C3_CredentialNeverWithoutProfile ==
    [][\A d \in RegPayloads :
          RegisterUser(d) =>
              \A u \in users' \ users : \E p \in profiles' : p.email = u.email]_vars

\* C4: a registration with every required field, an unused username and an
\* email unused in both stores answers 201 and adds exactly one credential
\* and one profile, the profile carrying the credential's id and email.
C4_ValidRegistrationCreatesPair ==
    [][\A d \in RegPayloads :
          (/\ RegisterUser(d)
           /\ d.username.name # "" /\ d.email.local # "" /\ d.password # ""
           /\ d.airline # "" /\ d.position # ""
           /\ ~\E u \in users : u.username = d.username
           /\ ~\E u \in users : u.email = d.email
           /\ ~\E p \in profiles : p.email = d.email)
          => /\ register_user(users, profiles, d).status = 201
             /\ \E u \in users' \ users, p \in profiles' \ profiles :
                  /\ users' = users \cup {u}
                  /\ profiles' = profiles \cup {p}
                  /\ p.id = UuidOfInt(u.id)
                  /\ p.email = u.email]_vars

\* What makes a registration rejected, in the words of the claims.
FieldMissing(d) ==
    \/ d.username.name = "" \/ d.email.local = "" \/ d.password = ""
    \/ d.airline = "" \/ d.position = ""
UsernameUsed(d) == \E u \in users : u.username = d.username
EmailUsed(d) ==
    \/ \E u \in users : u.email = d.email
    \/ \E p \in profiles : p.email = d.email

\* C5: a rejected registration (a required field missing, the username used
\* by a credential, the email used by a credential or a profile) answers 400
\* and creates no credential and no profile.
C5_RejectionCreatesNothing ==
    \A d \in RegPayloads :
        (FieldMissing(d) \/ UsernameUsed(d) \/ EmailUsed(d))
        => LET r == register_user(users, profiles, d) IN
           /\ r.status = 400
           /\ r.users = users
           /\ r.profiles = profiles

\* A payload is rejected for each of the three reasons alone.
C5_Witness ==
    /\ users # {} /\ profiles # {}
    /\ \E d \in RegPayloads : FieldMissing(d) /\ ~UsernameUsed(d) /\ ~EmailUsed(d)
    /\ \E d \in RegPayloads : ~FieldMissing(d) /\ UsernameUsed(d) /\ ~EmailUsed(d)
    /\ \E d \in RegPayloads : ~FieldMissing(d) /\ ~UsernameUsed(d) /\ EmailUsed(d)

\* C6: the reason of a rejection follows the order of the checks: a missing
\* field first, whatever else is wrong; then a used username, even if the
\* email is used too; then an email used by a credential or by a profile.
C6_RejectionOrder ==
    \A d \in RegPayloads :
        LET r == register_user(users, profiles, d) IN
        /\ FieldMissing(d) => r.status = 400 /\ r.error = ErrMissing
        /\ (~FieldMissing(d) /\ UsernameUsed(d)) => r.status = 400 /\ r.error = ErrUsername
        /\ (~FieldMissing(d) /\ ~UsernameUsed(d) /\ EmailUsed(d))
               => r.status = 400 /\ r.error = ErrEmail

\* A payload wrong in all three ways, one with a used username and a used
\* email, and one whose email is used only by a profile no credential matches.
C6_Witness ==
    /\ \E d \in RegPayloads : FieldMissing(d) /\ UsernameUsed(d) /\ EmailUsed(d)
    /\ \E d \in RegPayloads : ~FieldMissing(d) /\ UsernameUsed(d) /\ EmailUsed(d)
    /\ \E d \in RegPayloads :
          /\ ~FieldMissing(d) /\ ~UsernameUsed(d)
          /\ ~\E u \in users : u.email = d.email
          /\ \E p \in profiles : p.email = d.email /\ ~\E u \in users : u.email = p.email

\* C7: for a caller whose email matches no profile, every list is 200 and
\* empty, every single-row fetch is 404, and the self-profile endpoint is 404.
C7_UnboundCallerSeesNothing ==
    \A u \in users :
        Unbound(u) =>
            /\ \A k \in Kinds :
                  /\ list(profiles, rows, k, u) = [status |-> 200, rows |-> {}]
                  /\ \A pk \in RowIds : retrieve(profiles, rows, k, u, pk).status = 404
            /\ get_user_profile(profiles, u).status = 404

\* A caller with no profile, while a profile with rows exists.
C7_Witness ==
    \E u \in users, k \in Kinds :
        /\ Unbound(u)
        /\ rows[k] # {}
        /\ \E p \in profiles : p.id = UuidOfInt(u.id)

TokenProfileClaims == {"airline", "position", "profile_id"}

\* C8: issuing a token for a credential always succeeds; with no profile of
\* its email the token carries none of airline, position, profile_id; with
\* one, they are that profile's airline, position and id as a string.
C8_TokenClaimsFollowProfile ==
    \A u \in users :
        LET t == get_token(profiles, u) IN
        /\ t.status = 200
        /\ Unbound(u) => DOMAIN t.token \cap TokenProfileClaims = {}
        /\ \A p \in profiles :
              BoundTo(u, p) =>
                  /\ TokenProfileClaims \subseteq DOMAIN t.token
                  /\ t.token.airline = p.airline
                  /\ t.token.position = p.position
                  /\ t.token.profile_id = UuidStr(p.id)

\* One credential with a profile and one without, the profiles differing in
\* position.
C8_Witness ==
    /\ \E u \in users : Unbound(u)
    /\ \E u \in users, p \in profiles, q \in profiles :
          BoundTo(u, p) /\ q.position # p.position

\* C9: no two credentials share an email, no two profiles share an email,
\* and no two credentials resolve to the same profile.
C9_EmailBindingIsOneToOne ==
    /\ \A u1 \in users, u2 \in users : u1.email = u2.email => u1 = u2
    /\ \A p1 \in profiles, p2 \in profiles : p1.email = p2.email => p1 = p2
    /\ \A u1 \in users, u2 \in users, p \in profiles :
          (BoundTo(u1, p) /\ BoundTo(u2, p)) => u1 = u2

\* C10: every profile's email is the email of the credential it is paired
\* with, the credential whose id it was created under.
C10_ProfileEmailIsCredentialEmail ==
    \A p \in profiles, u \in users :
        p.id = UuidOfInt(u.id) => p.email = u.email

====
